---- MODULE Spec2Model ----
(***************************************************************************)
(* Tax Deductible Tracker: the IndexedDB record store (database.js), the   *)
(* category registry, the expense ledger and the snapshot exchange         *)
(* (backup.js), with the App handlers that drive them (app.js).            *)
(*                                                                         *)
(* A stored object is a function from field names to values, as a          *)
(* JavaScript object is; an object store is the set of its records, each   *)
(* with a distinct "id" (keyPath 'id'), plus its key generator.            *)
(***************************************************************************)
EXTENDS Integers, Sequences, FiniteSets, TLC

(* ------------------------------ bounds --------------------------------- *)

MaxOps == 2
MaxSnapshotRecords == 2

(* --------------------------- input domains ----------------------------- *)

Amounts == {100, 200}
Percents == {50, 100}
ExpenseCategories == {"Desk"}
CategoryNames == {"Desk", "desk", "Chair"}
SnapshotCategoryNames == {"Desk", "Furniture"}

VARIABLES expenses, expenseKeyGen, categories, categoryKeyGen, settings,
          now, ops, last, tasks, submitted, view, app, receiptManager

vars == <<expenses, expenseKeyGen, categories, categoryKeyGen, settings,
          now, ops, last, tasks, submitted, view, app, receiptManager>>

(* --------------------------- object helpers ---------------------------- *)

\* { ...base, ...over }
Spread(base, over) ==
    [f \in (DOMAIN base) \cup (DOMAIN over) |->
        IF f \in DOMAIN over THEN over[f] ELSE base[f]]

Has(obj, f) == f \in DOMAIN obj

Names(cats) == {c.name : c \in cats}

Keys(records) == {r.id : r \in records}

\* the object without its createdAt / updatedAt stamps
Unstamped(obj) == [f \in (DOMAIN obj) \ {"createdAt", "updatedAt"} |-> obj[f]]

(* ------------------------- IndexedDB object store ---------------------- *)

\* an add in which a value's own key does not move the key generator
storeAddStaleGenerator(records, keyGen, value, uniqueFields) ==
    LET key == IF Has(value, "id") THEN value.id ELSE keyGen
        stored == Spread(value, [id |-> key])
        clash == \E r \in records : \E f \in uniqueFields :
                    Has(r, f) /\ Has(value, f) /\ r[f] = value[f]
    IN  IF key \in Keys(records) \/ clash
        THEN [ok |-> FALSE, records |-> records, keyGen |-> keyGen, key |-> 0]
        ELSE [ok |-> TRUE, records |-> records \cup {stored},
              keyGen |-> IF Has(value, "id") THEN keyGen ELSE keyGen + 1,
              key |-> key]

\* store.add(value) on a store created with keyPath 'id', autoIncrement
\* true, and unique indexes on the fields in uniqueFields.  A value that
\* carries its own id keeps it (and pushes the key generator past it); a
\* value without one gets the generator's current number.  An existing key
\* or an existing value of a unique index is a ConstraintError and the
\* store is unchanged.
storeAdd(records, keyGen, value, uniqueFields) ==
    LET key == IF Has(value, "id") THEN value.id ELSE keyGen
        stored == Spread(value, [id |-> key])
        clash == \E r \in records : \E f \in uniqueFields :
                    Has(r, f) /\ Has(value, f) /\ r[f] = value[f]
    IN  IF key \in Keys(records) \/ clash
        THEN [ok |-> FALSE, records |-> records, keyGen |-> keyGen, key |-> 0]
        ELSE [ok |-> TRUE, records |-> records \cup {stored},
              keyGen |-> IF key >= keyGen THEN key + 1 ELSE keyGen,
              key |-> key]

\* store.put(value) for a value that carries its id: insert or replace.
storePut(records, keyGen, value) ==
    [records |-> {r \in records : r.id # value.id} \cup {value},
     keyGen |-> IF value.id >= keyGen THEN value.id + 1 ELSE keyGen]

\* store.delete(id): succeeds whether or not the key exists.
storeDelete(records, id) == {r \in records : r.id # id}

\* store.getAll(): the records in ascending key order.
RECURSIVE storeGetAll(_)
storeGetAll(records) ==
    IF records = {} THEN <<>>
    ELSE LET first == CHOOSE r \in records : \A s \in records : r.id <= s.id
         IN  <<first>> \o storeGetAll(records \ {first})

(* ------------------------------ database.js ---------------------------- *)

\* The database is the record db of its three object stores and the key
\* generators of the two autoIncrement stores.  Every Database method is an
\* operator from db (and its arguments) to [ok, db]: ok is FALSE when the
\* returned promise rejects.

DB_VERSION == 1

Resolve(db) == [ok |-> TRUE, db |-> db]

Reject(db) == [ok |-> FALSE, db |-> db]

calculateDeductible(expenseAmount, percentUsedForWork) ==
    (expenseAmount * percentUsedForWork) \div 100

\* ExpenseManager.createExpenseFromForm: the object the form submit writes.
createExpenseFromForm(amount, percent, category) ==
    [expenseAmount |-> amount,
     percentUsedForWork |-> percent,
     expenseCategory |-> category,
     deductible |-> calculateDeductible(amount, percent)]

addExpense(db, expense, t) ==
    LET expenseData == Spread(expense, [createdAt |-> t, updatedAt |-> t])
        r == storeAdd(db.expenses, db.expenseKeyGen, expenseData, {})
    IN  [ok |-> r.ok,
         db |-> [db EXCEPT !.expenses = r.records, !.expenseKeyGen = r.keyGen]]

getExpense(db, id) == {r \in db.expenses : r.id = id}

\* the part of updateExpense after "await this.getExpense(id)": expense is
\* the record that was read, the put runs in a transaction of its own
updateExpensePut(db, id, expense, updates, t) ==
    LET updatedExpense ==
            Spread(Spread(expense, updates), [id |-> id, updatedAt |-> t])
        r == storePut(db.expenses, db.expenseKeyGen, updatedExpense)
    IN  Resolve([db EXCEPT !.expenses = r.records, !.expenseKeyGen = r.keyGen])

\* an update that does not look for the record first
updateExpenseUpsert(db, id, updates, t) ==
    LET updatedExpense == Spread(updates, [id |-> id, updatedAt |-> t])
        r == storePut(db.expenses, db.expenseKeyGen, updatedExpense)
    IN  Resolve([db EXCEPT !.expenses = r.records, !.expenseKeyGen = r.keyGen])

updateExpense(db, id, updates, t) ==
    IF getExpense(db, id) = {}
    THEN Reject(db)
    ELSE updateExpensePut(db, id, CHOOSE r \in db.expenses : r.id = id,
                          updates, t)

deleteExpense(db, id) ==
    Resolve([db EXCEPT !.expenses = storeDelete(db.expenses, id)])

\* the categories store without its unique index on name
addCategoryNoUniqueIndex(db, category) ==
    LET r == storeAdd(db.categories, db.categoryKeyGen, category, {})
    IN  [ok |-> r.ok,
         db |-> [db EXCEPT !.categories = r.records,
                           !.categoryKeyGen = r.keyGen]]

addCategory(db, category) ==
    LET r == storeAdd(db.categories, db.categoryKeyGen, category, {"name"})
    IN  [ok |-> r.ok,
         db |-> [db EXCEPT !.categories = r.records,
                           !.categoryKeyGen = r.keyGen]]

getAllCategories(db) == storeGetAll(db.categories)

getAllExpenses(db) == storeGetAll(db.expenses)

\* a delete that cascades to the expenses naming the category
deleteCategoryCascade(db, id) ==
    LET gone == {c.name : c \in {c \in db.categories : c.id = id}}
    IN  Resolve([db EXCEPT
            !.categories = storeDelete(db.categories, id),
            !.expenses = {e \in db.expenses : e.expenseCategory \notin gone}])

deleteCategory(db, id) ==
    Resolve([db EXCEPT !.categories = storeDelete(db.categories, id)])

\* for (const category of list) await this.addCategory(category);
\* the first rejected add throws and ends the loop
RECURSIVE addCategories(_, _)
addCategories(db, list) ==
    IF list = <<>> THEN Resolve(db)
    ELSE LET r == addCategory(db, Head(list))
         IN  IF r.ok THEN addCategories(r.db, Tail(list)) ELSE r

\* for (const expense of list) await this.addExpense(expense);
RECURSIVE addExpenses(_, _, _)
addExpenses(db, list, t) ==
    IF list = <<>> THEN Resolve(db)
    ELSE LET r == addExpense(db, Head(list), t)
         IN  IF r.ok THEN addExpenses(r.db, Tail(list), t) ELSE r

\* the built-in categories, in insertion order (icon and colour are
\* presentation metadata and carry no behaviour)
defaultCategories ==
    <<[name |-> "Internet"], [name |-> "Electricity"], [name |-> "Computer"],
      [name |-> "Furniture"], [name |-> "Office Supplies"],
      [name |-> "Software"], [name |-> "Professional Services"],
      [name |-> "Travel"], [name |-> "Mobile Device"], [name |-> "Other"]>>

\* seeding without the check for an already populated registry
initializeDefaultCategoriesReseed(db) == addCategories(db, defaultCategories)

\* Database.initializeDefaultCategories: the Desk/Chair migration on a
\* non-empty registry, the built-in set on an empty one.
initializeDefaultCategories(db) ==
    LET existingCategories == db.categories
    IN  IF existingCategories # {}
        THEN LET desk == {c \in existingCategories : c.name = "Desk"}
                 chair == {c \in existingCategories : c.name = "Chair"}
                 furniture ==
                     {c \in existingCategories : c.name = "Furniture"}
             IN  IF (desk # {} \/ chair # {}) /\ furniture = {}
                 THEN LET added == addCategory(db, [name |-> "Furniture"])
                          d1 == IF desk # {}
                                THEN deleteCategory(
                                         added.db, (CHOOSE c \in desk : TRUE).id).db
                                ELSE added.db
                          d2 == IF chair # {}
                                THEN deleteCategory(
                                         d1, (CHOOSE c \in chair : TRUE).id).db
                                ELSE d1
                      IN  IF added.ok THEN Resolve(d2) ELSE added
                 ELSE Resolve(db)
        ELSE addCategories(db, defaultCategories)

\* Database.exportData at time t
exportData(db, t) ==
    [expenses |-> getAllExpenses(db),
     categories |-> getAllCategories(db),
     exportDate |-> t,
     version |-> DB_VERSION]

\* the first transaction of importData: both stores are cleared
importDataClear(db) == [db EXCEPT !.expenses = {}, !.categories = {}]

\* an import that does not clear the stores first
importDataNoClear(db, data, t) ==
    LET c == IF Has(data, "categories")
             THEN addCategories(db, data.categories)
             ELSE Resolve(db)
    IN  IF ~c.ok THEN c
        ELSE IF Has(data, "expenses")
             THEN addExpenses(c.db, data.expenses, t)
             ELSE c

\* Database.importData(data) at time t: both stores are cleared (their key
\* generators are not), then the snapshot's categories and expenses are
\* added one by one; a rejected add throws out of the function and leaves
\* what was inserted so far.
importData(db, data, t) ==
    LET cleared == importDataClear(db)
        c == IF Has(data, "categories")
             THEN addCategories(cleared, data.categories)
             ELSE Resolve(cleared)
    IN  IF ~c.ok THEN c
        ELSE IF Has(data, "expenses")
             THEN addExpenses(c.db, data.expenses, t)
             ELSE c

setSetting(db, key, value) ==
    Resolve([db EXCEPT !.settings =
        {s \in db.settings : s.key # key} \cup {[key |-> key, value |-> value]}])

\* a clear that leaves the settings store alone
clearAllDataKeepSettings(db) ==
    Resolve([db EXCEPT !.expenses = {}, !.categories = {}])

\* Database.clearAllData: the three stores are cleared
clearAllData(db) ==
    Resolve([db EXCEPT !.expenses = {}, !.categories = {}, !.settings = {}])

(* ------------------------------- backup.js ----------------------------- *)

\* BackupManager.importData (file import): the parsed file is validated,
\* the user confirms, then the database imports it.
backupImportData(db, data, confirmed, t) ==
    IF ~Has(data, "expenses") \/ ~Has(data, "categories")
    THEN [result |-> "invalid", db |-> db]
    ELSE IF ~confirmed
         THEN [result |-> "cancelled", db |-> db]
         ELSE LET r == importData(db, data, t)
              IN  [result |-> IF r.ok THEN "ok" ELSE "failed", db |-> r.db]

\* BackupManager.restoreFile (cloud auto-restore, after checkForNewerBackup
\* asked the user): the downloaded document is imported as it is.
restoreFile(db, data, t) ==
    LET r == importData(db, data, t)
    IN  IF r.ok
        THEN [result |-> "ok",
              db |-> setSetting(r.db, "lastGoogleDriveBackupDate", t).db]
        ELSE [result |-> "failed", db |-> r.db]

\* BackupManager.restoreFromGoogleDrive (manual cloud restore): the confirm
\* text reads data.expenses.length and data.categories.length, which throws
\* a TypeError on a document without them.
restoreFromGoogleDrive(db, data, confirmed, t) ==
    IF ~Has(data, "expenses") \/ ~Has(data, "categories")
    THEN [result |-> "typeError", db |-> db]
    ELSE IF ~confirmed
         THEN [result |-> "cancelled", db |-> db]
         ELSE LET r == importData(db, data, t)
              IN  [result |-> IF r.ok THEN "ok" ELSE "failed", db |-> r.db]

(* ---------------------- expenses.js: the expense form ------------------- *)

\* A text is the sequence of its characters.  A FormData is a function from
\* the names of the controls it carries to their texts; formData.get(name)
\* of a control it does not carry is null, and a draft's field that is null
\* is left out of the draft's domain.

Whitespace == {" ", "\t", "\n"}

DigitValue ==
    ("0" :> 0) @@ ("1" :> 1) @@ ("2" :> 2) @@ ("3" :> 3) @@ ("4" :> 4)
    @@ ("5" :> 5) @@ ("6" :> 6) @@ ("7" :> 7) @@ ("8" :> 8) @@ ("9" :> 9)

\* String.prototype.trim
RECURSIVE trimStart(_)
trimStart(text) ==
    IF text # <<>> /\ Head(text) \in Whitespace
    THEN trimStart(Tail(text))
    ELSE text

RECURSIVE trimEnd(_)
trimEnd(text) ==
    IF text # <<>> /\ text[Len(text)] \in Whitespace
    THEN trimEnd(SubSeq(text, 1, Len(text) - 1))
    ELSE text

trim(text) == trimEnd(trimStart(text))

\* the value of the longest prefix of digits, most significant first
RECURSIVE digitsPrefix(_, _, _)
digitsPrefix(text, value, count) ==
    IF text # <<>> /\ Head(text) \in DOMAIN DigitValue
    THEN digitsPrefix(Tail(text), value * 10 + DigitValue[Head(text)],
                      count + 1)
    ELSE [value |-> value, count |-> count]

\* parseFloat / parseInt of a text of whitespace, sign and digits (the
\* amounts of the model are whole numbers): leading whitespace is skipped,
\* what follows the digits is ignored, and a text without a leading number,
\* as well as null, is NaN.
parseNumber(text) ==
    LET t == trimStart(text)
        negative == t # <<>> /\ Head(t) = "-"
        digits == digitsPrefix(IF negative THEN Tail(t) ELSE t, 0, 0)
    IN  IF digits.count = 0
        THEN [nan |-> TRUE, value |-> 0]
        ELSE [nan |-> FALSE,
              value |-> IF negative THEN 0 - digits.value ELSE digits.value]

\* parseFloat(formData.get(name)) || 0
parseFloatOrZero(formData, name) ==
    LET n == IF Has(formData, name)
             THEN parseNumber(formData[name])
             ELSE [nan |-> TRUE, value |-> 0]
    IN  IF n.nan THEN 0 ELSE n.value

TextFields == {"datePaid", "merchant", "expenseDetails", "expenseCategory"}

\* a draft whose deductible is the whole amount
createExpenseFromFormDataFullAmount(formData) ==
    LET expenseAmount == parseFloatOrZero(formData, "expenseAmount")
        percentUsedForWork == parseFloatOrZero(formData, "percentUsedForWork")
    IN  Spread([f \in TextFields \cap DOMAIN formData |-> formData[f]],
               [expenseAmount |-> expenseAmount,
                percentUsedForWork |-> percentUsedForWork,
                deductible |-> expenseAmount,
                notes |-> IF Has(formData, "notes")
                          THEN formData["notes"] ELSE <<>>,
                receiptFiles |-> <<>>])

\* ExpenseManager.createExpenseFromForm(formData)
createExpenseFromFormData(formData) ==
    LET expenseAmount == parseFloatOrZero(formData, "expenseAmount")
        percentUsedForWork == parseFloatOrZero(formData, "percentUsedForWork")
    IN  Spread([f \in TextFields \cap DOMAIN formData |-> formData[f]],
               [expenseAmount |-> expenseAmount,
                percentUsedForWork |-> percentUsedForWork,
                deductible |->
                    calculateDeductible(expenseAmount, percentUsedForWork),
                notes |-> IF Has(formData, "notes")
                          THEN formData["notes"] ELSE <<>>,
                receiptFiles |-> <<>>])

\* !expense[f] for a text field: null, undefined or the empty text
Falsy(expense, f) == ~Has(expense, f) \/ expense[f] = <<>>

\* a validation that stops at the first violation
validateExpenseFirstError(expense) ==
    IF Falsy(expense, "datePaid")
    THEN <<"Date Paid is required">>
    ELSE IF Falsy(expense, "merchant") \/ trim(expense.merchant) = <<>>
    THEN <<"Merchant is required">>
    ELSE IF Falsy(expense, "expenseDetails")
            \/ trim(expense.expenseDetails) = <<>>
    THEN <<"Expense Details is required">>
    ELSE IF Falsy(expense, "expenseCategory")
    THEN <<"Expense Category is required">>
    ELSE IF ~Has(expense, "expenseAmount") \/ expense.expenseAmount = 0
            \/ expense.expenseAmount <= 0
    THEN <<"Expense Amount must be greater than 0">>
    ELSE IF ~Has(expense, "percentUsedForWork")
            \/ expense.percentUsedForWork < 0
            \/ expense.percentUsedForWork > 100
    THEN <<"% Used for Work must be between 0 and 100">>
    ELSE <<>>

\* ExpenseManager.validateExpense(expense): the list of error messages
validateExpense(expense) ==
    (IF Falsy(expense, "datePaid")
     THEN <<"Date Paid is required">> ELSE <<>>)
    \o (IF Falsy(expense, "merchant") \/ trim(expense.merchant) = <<>>
        THEN <<"Merchant is required">> ELSE <<>>)
    \o (IF Falsy(expense, "expenseDetails")
           \/ trim(expense.expenseDetails) = <<>>
        THEN <<"Expense Details is required">> ELSE <<>>)
    \o (IF Falsy(expense, "expenseCategory")
        THEN <<"Expense Category is required">> ELSE <<>>)
    \o (IF ~Has(expense, "expenseAmount") \/ expense.expenseAmount = 0
           \/ expense.expenseAmount <= 0
        THEN <<"Expense Amount must be greater than 0">> ELSE <<>>)
    \o (IF ~Has(expense, "percentUsedForWork")
           \/ expense.percentUsedForWork < 0
           \/ expense.percentUsedForWork > 100
        THEN <<"% Used for Work must be between 0 and 100">> ELSE <<>>)

\* a submit handler that shows the errors and goes on to save
handleExpenseSubmitNoReturn(db, formData, receipts, t) ==
    LET expense == Spread(createExpenseFromFormData(formData),
                          [receiptFiles |-> receipts])
        errors == validateExpense(expense)
        editing == Has(formData, "expenseId") /\ formData["expenseId"] # <<>>
        id == parseNumber(formData["expenseId"])
        r == IF editing
             THEN IF id.nan THEN Reject(db)
                  ELSE updateExpense(db, id.value, expense, t)
             ELSE addExpense(db, expense, t)
    IN  [expense |-> expense, errors |-> errors,
         wrote |-> IF editing THEN "updateExpense" ELSE "addExpense",
         ok |-> r.ok, db |-> r.db]

\* App.handleExpenseSubmit: the draft is built from the form, the receipts
\* are attached, the draft is validated, and only a draft without errors is
\* saved: by updateExpense when the form carries an expenseId, by addExpense
\* otherwise.  A rejected write is caught and reported.
handleExpenseSubmit(db, formData, receipts, t) ==
    LET expense == Spread(createExpenseFromFormData(formData),
                          [receiptFiles |-> receipts])
        errors == validateExpense(expense)
        editing == Has(formData, "expenseId") /\ formData["expenseId"] # <<>>
        id == parseNumber(formData["expenseId"])
        r == IF editing
             THEN IF id.nan THEN Reject(db)
                  ELSE updateExpense(db, id.value, expense, t)
             ELSE addExpense(db, expense, t)
    IN  IF errors # <<>>
        THEN [expense |-> expense, errors |-> errors, wrote |-> "none",
              ok |-> FALSE, db |-> db]
        ELSE [expense |-> expense, errors |-> errors,
              wrote |-> IF editing THEN "updateExpense" ELSE "addExpense",
              ok |-> r.ok, db |-> r.db]

(* ------------------------- dates and text order ------------------------ *)

\* A date string "YYYY-MM-DD" is the triple <<year, month, day>> and the
\* empty string is <<>>; date strings of this form compare as strings the
\* way their triples compare lexicographically.  An instant (the time value
\* of a Date) is counted in seconds from the midnight UTC that starts the
\* year of Epoch.  tz is the offset of local time from UTC, in seconds.

Epoch == <<2023, 1, 1>>

SecondsPerDay == 24 * 60 * 60

TimeZones == {0 - 5 * 60 * 60, 0, 10 * 60 * 60}

IsLeapYear(y) == (y % 4 = 0 /\ y % 100 # 0) \/ y % 400 = 0

DaysInMonth(y, m) ==
    IF m = 2 THEN (IF IsLeapYear(y) THEN 29 ELSE 28)
    ELSE IF m \in {4, 6, 9, 11} THEN 30 ELSE 31

DaysInYear(y) == IF IsLeapYear(y) THEN 366 ELSE 365

RECURSIVE DaysBeforeYear(_)
DaysBeforeYear(y) ==
    IF y <= Epoch[1] THEN 0 ELSE DaysBeforeYear(y - 1) + DaysInYear(y - 1)

RECURSIVE DaysBeforeMonth(_, _)
DaysBeforeMonth(y, m) ==
    IF m <= 1 THEN 0 ELSE DaysBeforeMonth(y, m - 1) + DaysInMonth(y, m - 1)

\* days from the epoch to a calendar date, and back
DayNumber(date) ==
    DaysBeforeYear(date[1]) + DaysBeforeMonth(date[1], date[2]) + date[3] - 1

RECURSIVE MonthOfDay(_, _, _)
MonthOfDay(y, m, n) ==
    IF n < DaysInMonth(y, m) THEN <<y, m, n + 1>>
    ELSE MonthOfDay(y, m + 1, n - DaysInMonth(y, m))

RECURSIVE CivilFromDays(_, _)
CivilFromDays(y, n) ==
    IF n < DaysInYear(y) THEN MonthOfDay(y, 1, n)
    ELSE CivilFromDays(y + 1, n - DaysInYear(y))

\* new Date("YYYY-MM-DD"): a date-only string is midnight UTC of that day
newDate(date) == DayNumber(date) * SecondsPerDay

\* the calendar date of an instant in local time
localDate(instant, tz) == CivilFromDays(Epoch[1], (instant + tz) \div SecondsPerDay)

\* Date.prototype.getFullYear, getMonth (0 to 11): local time
getFullYear(instant, tz) == localDate(instant, tz)[1]

getMonth(instant, tz) == localDate(instant, tz)[2] - 1

\* Date.prototype.setHours(h, m, s, ms): that time of the instant's local
\* day (every other instant of the model is a whole second, so the
\* milliseconds are dropped)
setHours(instant, tz, h, m, sec) ==
    ((instant + tz) \div SecondsPerDay) * SecondsPerDay
    + (h * 60 + m) * 60 + sec - tz

\* the characters of the model in the order of their code units
Alphabet ==
    <<"\t", "\n", " ", "%", "-",
      "0", "1", "2", "3", "4", "5", "6", "7", "8", "9",
      "A", "B", "C", "D", "E", "F", "G", "H", "I", "J", "K", "L", "M",
      "N", "O", "P", "Q", "R", "S", "T", "U", "V", "W", "X", "Y", "Z",
      "a", "b", "c", "d", "e", "f", "g", "h", "i", "j", "k", "l", "m",
      "n", "o", "p", "q", "r", "s", "t", "u", "v", "w", "x", "y", "z">>

CharCode(c) == CHOOSE i \in DOMAIN Alphabet : Alphabet[i] = c

UpperCase == {Alphabet[i] : i \in CharCode("A")..CharCode("Z")}

\* String.prototype.toLowerCase
toLowerCase(text) ==
    [i \in DOMAIN text |->
        IF text[i] \in UpperCase
        THEN Alphabet[CharCode(text[i]) + (CharCode("a") - CharCode("A"))]
        ELSE text[i]]

\* String.prototype.includes
includes(text, term) ==
    \E i \in 0..(Len(text) - Len(term)) :
        SubSeq(text, i + 1, i + Len(term)) = term

\* a < b on strings: by code units, a proper prefix first
RECURSIVE textLess(_, _)
textLess(a, b) ==
    IF b = <<>> THEN FALSE
    ELSE IF a = <<>> THEN TRUE
    ELSE IF Head(a) # Head(b) THEN CharCode(Head(a)) < CharCode(Head(b))
    ELSE textLess(Tail(a), Tail(b))

\* a <= b on date strings
dateStringLeq(a, b) ==
    \/ a[1] < b[1]
    \/ a[1] = b[1] /\ a[2] < b[2]
    \/ a[1] = b[1] /\ a[2] = b[2] /\ a[3] <= b[3]

(* ------------------- expenses.js: filtering and sorting ---------------- *)

All == <<"a", "l", "l">>

\* the callback of filterExpenses' expenses.filter
passesFilter(expense, currentFilter, tz) ==
    LET expenseDate == newDate(expense.datePaid)
        fromDate == setHours(newDate(currentFilter.dateFrom), tz, 0, 0, 0)
        toDate == setHours(newDate(currentFilter.dateTo), tz, 23, 59, 59)
        year == parseNumber(currentFilter.year)
        quarter == parseNumber(currentFilter.quarter)
        expenseQuarter == (getMonth(expenseDate, tz) \div 3) + 1
        searchLower == toLowerCase(currentFilter.searchTerm)
        searchableText ==
            toLowerCase(expense.merchant \o <<" ">> \o expense.expenseDetails
                        \o <<" ">> \o expense.expenseCategory
                        \o <<" ">> \o expense.notes)
    IN  /\ ~(/\ currentFilter.category # All
             /\ expense.expenseCategory # currentFilter.category)
        /\ IF currentFilter.dateFrom # <<>> /\ currentFilter.dateTo # <<>>
           THEN ~(expenseDate < fromDate \/ expenseDate > toDate)
           ELSE IF currentFilter.year # All
           THEN /\ ~year.nan
                /\ getFullYear(expenseDate, tz) = year.value
                /\ currentFilter.quarter # All
                   => (~quarter.nan /\ expenseQuarter = quarter.value)
           ELSE TRUE
        /\ currentFilter.searchTerm # <<>>
           => includes(searchableText, searchLower)

\* ExpenseManager.filterExpenses with this.currentFilter
filterExpenses(list, currentFilter, tz) ==
    SelectSeq(list, LAMBDA expense : passesFilter(expense, currentFilter, tz))

\* DashboardManager.filterByQuarter
filterByQuarter(list, year, quarter, tz) ==
    LET quarters == <<[start |-> 0, end |-> 2], [start |-> 3, end |-> 5],
                      [start |-> 6, end |-> 8], [start |-> 9, end |-> 11]>>
        start == quarters[quarter].start
        end == quarters[quarter].end
    IN  SelectSeq(list, LAMBDA exp :
            LET date == newDate(exp.datePaid)
            IN  /\ getFullYear(date, tz) = year
                /\ getMonth(date, tz) >= start
                /\ getMonth(date, tz) <= end)

\* the records of the datePaid index in index order: by date, then by key
RECURSIVE byDatePaid(_)
byDatePaid(records) ==
    IF records = {} THEN <<>>
    ELSE LET first == CHOOSE r \in records : \A o \in records :
                        \/ r.datePaid # o.datePaid
                           /\ dateStringLeq(r.datePaid, o.datePaid)
                        \/ r.datePaid = o.datePaid /\ r.id <= o.id
         IN  <<first>> \o byDatePaid(records \ {first})

\* Database.getExpensesByDateRange: IDBKeyRange.bound(startDate, endDate)
\* on the datePaid index, whose keys are the date strings
getExpensesByDateRange(db, startDate, endDate) ==
    byDatePaid({r \in db.expenses :
                    /\ dateStringLeq(startDate, r.datePaid)
                    /\ dateStringLeq(r.datePaid, endDate)})

RECURSIVE sumOf(_, _)
sumOf(list, field) ==
    IF list = <<>> THEN 0 ELSE Head(list)[field] + sumOf(Tail(list), field)

\* DashboardManager.groupByMonth at the instant clock: one entry for each of
\* the last `months` months of local time, oldest first.  new Date(y, m - i,
\* 1) carries a month below 0 into the year before; the label ('short'
\* month, 2-digit year) is the pair of the month (0 to 11) and the year's
\* last two digits.
groupByMonth(list, months, clock, tz) ==
    [k \in 1..months |->
        LET i == months - k
            m == getMonth(clock, tz) - i
            date == [year |-> getFullYear(clock, tz) + (m \div 12),
                     month |-> m % 12]
            monthExpenses ==
                SelectSeq(list, LAMBDA exp :
                    LET expDate == newDate(exp.datePaid)
                    IN  /\ getFullYear(expDate, tz) = date.year
                        /\ getMonth(expDate, tz) = date.month)
        IN  [label |-> <<date.month, date.year % 100>>,
             deductible |-> sumOf(monthExpenses, "deductible"),
             count |-> Len(monthExpenses)]]

\* the names every object literal inherits from Object.prototype: a lookup
\* byCategory[name] of one of them finds the inherited member, which is
\* truthy, although the object has no property of its own by that name
ObjectPrototype ==
    {<<"c", "o", "n", "s", "t", "r", "u", "c", "t", "o", "r">>,
     <<"t", "o", "S", "t", "r", "i", "n", "g">>,
     <<"v", "a", "l", "u", "e", "O", "f">>}

\* the forEach of getQuarterlyStats over "const byCategory = {}": an entry
\* is created when byCategory[exp.expenseCategory] is falsy, then counted
\* up; on an inherited name no entry is created and the three updates land
\* on the inherited member, not on byCategory
RECURSIVE groupByCategory(_, _)
groupByCategory(byCategory, list) ==
    IF list = <<>> THEN byCategory
    ELSE LET exp == Head(list)
             name == exp.expenseCategory
             own == name \in DOMAIN byCategory
             inherited == ~own /\ name \in ObjectPrototype
             created ==
                 IF own THEN byCategory
                 ELSE byCategory @@ (name :> [count |-> 0, totalAmount |-> 0,
                                             totalDeductible |-> 0])
         IN  IF inherited
             THEN groupByCategory(byCategory, Tail(list))
             ELSE groupByCategory(
                    [created EXCEPT ![name] =
                        [count |-> @.count + 1,
                         totalAmount |-> @.totalAmount + exp.expenseAmount,
                         totalDeductible |->
                            @.totalDeductible + exp.deductible]],
                    Tail(list))

\* Database.getQuarterlyStats
getQuarterlyStats(db, year, quarter) ==
    LET quarters == <<[start |-> <<year, 1, 1>>, end |-> <<year, 3, 31>>],
                      [start |-> <<year, 4, 1>>, end |-> <<year, 6, 30>>],
                      [start |-> <<year, 7, 1>>, end |-> <<year, 9, 30>>],
                      [start |-> <<year, 10, 1>>, end |-> <<year, 12, 31>>]>>
        list == getExpensesByDateRange(db, quarters[quarter].start,
                                       quarters[quarter].end)
    IN  [quarter |-> quarter, year |-> year,
         totalExpenses |-> sumOf(list, "expenseAmount"),
         totalDeductible |-> sumOf(list, "deductible"),
         expenseCount |-> Len(list),
         byCategory |-> groupByCategory(<<>>, list),
         expenses |-> list]

NumberFields == {"id", "expenseAmount", "percentUsedForWork", "deductible"}

\* a comparator that ignores the configured direction
compareAscending(a, b, currentSort) ==
    LET field == currentSort.field
        less == IF field = "datePaid" THEN newDate(a[field]) < newDate(b[field])
                ELSE IF field \in NumberFields THEN a[field] < b[field]
                ELSE textLess(a[field], b[field])
        greater == IF field = "datePaid"
                   THEN newDate(a[field]) > newDate(b[field])
                   ELSE IF field \in NumberFields THEN a[field] > b[field]
                   ELSE textLess(b[field], a[field])
    IN  IF less THEN 0 - 1 ELSE IF greater THEN 1 ELSE 0

\* the comparator of sortExpenses: negative when a goes first
compare(a, b, currentSort) ==
    LET field == currentSort.field
        less == IF field = "datePaid" THEN newDate(a[field]) < newDate(b[field])
                ELSE IF field \in NumberFields THEN a[field] < b[field]
                ELSE textLess(a[field], b[field])
        greater == IF field = "datePaid"
                   THEN newDate(a[field]) > newDate(b[field])
                   ELSE IF field \in NumberFields THEN a[field] > b[field]
                   ELSE textLess(b[field], a[field])
    IN  IF less THEN (IF currentSort.order = "asc" THEN 0 - 1 ELSE 1)
        ELSE IF greater THEN (IF currentSort.order = "asc" THEN 1 ELSE 0 - 1)
        ELSE 0

\* Array.prototype.sort is a stable sort: x goes behind the last element
\* that does not have to come after it
RECURSIVE insertSorted(_, _, _)
insertSorted(sorted, x, currentSort) ==
    IF sorted = <<>> THEN <<x>>
    ELSE IF compare(sorted[Len(sorted)], x, currentSort) <= 0
    THEN Append(sorted, x)
    ELSE Append(insertSorted(SubSeq(sorted, 1, Len(sorted) - 1), x,
                             currentSort),
                sorted[Len(sorted)])

RECURSIVE sortFrom(_, _, _)
sortFrom(sorted, list, currentSort) ==
    IF list = <<>> THEN sorted
    ELSE sortFrom(insertSorted(sorted, Head(list), currentSort), Tail(list),
                  currentSort)

\* ExpenseManager.sortExpenses with this.currentSort
sortExpenses(list, currentSort) == sortFrom(<<>>, list, currentSort)

\* "return expenses.sort(...)": Array.prototype.sort sorts the array it is
\* called on in place and returns that same array, so what the caller's
\* array holds after sortExpenses(expenses) is the sorted order
sortExpensesArgument(list, currentSort) == sortExpenses(list, currentSort)

(* -------------------------------- inputs ------------------------------- *)

NoData == [none |-> TRUE]

SeqsUpTo(S, n) == UNION {[1..k -> S] : k \in 0..n}

\* category lists of a snapshot document: ids by position, so two entries
\* may carry the same name
SnapshotCategoryLists ==
    {[i \in DOMAIN names |-> [id |-> i, name |-> names[i]]] :
        names \in SeqsUpTo(SnapshotCategoryNames, MaxSnapshotRecords)}

\* expense lists of a snapshot document, ids by position.  The document is
\* outside the program's control and its deductible need not match its
\* amount and percentage; the documents in which it does are the ones
\* ImportExported hands over.
SnapshotDeductibles == {10}

SnapshotExpenseLists ==
    {[i \in DOMAIN ds |->
        [id |-> i, expenseAmount |-> 100, percentUsedForWork |-> 50,
         deductible |-> ds[i], expenseCategory |-> "Desk",
         createdAt |-> 1, updatedAt |-> 1]] :
        ds \in SeqsUpTo(SnapshotDeductibles, MaxSnapshotRecords)}

\* the documents an import may be handed: at most MaxSnapshotRecords
\* records, and possibly without one of the two fields
SnapshotInputs ==
    {[categories |-> p[1], expenses |-> p[2]] :
        p \in {q \in SnapshotCategoryLists \X SnapshotExpenseLists :
                  Len(q[1]) + Len(q[2]) <= MaxSnapshotRecords}}
    \cup {[categories |-> c] : c \in SnapshotCategoryLists}
    \cup {[expenses |-> e] : e \in SnapshotExpenseLists}

\* what the expense form submits, and the partial patches of the update API
FormExpenses ==
    {createExpenseFromForm(a, p, c) :
        a \in Amounts, p \in Percents, c \in ExpenseCategories}

Patches ==
    FormExpenses
    \cup {[expenseAmount |-> a] : a \in Amounts}
    \cup {[percentUsedForWork |-> p] : p \in Percents}

(* ------------------------------ state machine -------------------------- *)

DB == [expenses |-> expenses, expenseKeyGen |-> expenseKeyGen,
       categories |-> categories, categoryKeyGen |-> categoryKeyGen,
       settings |-> settings]

Init ==
    /\ expenses = {}
    /\ expenseKeyGen = 1
    /\ categories = {}
    /\ categoryKeyGen = 1
    /\ settings = {}
    /\ now = 1
    /\ ops = 0
    /\ last = [op |-> "open", result |-> "ok", id |-> 0, fields |-> {},
               data |-> NoData, again |-> FALSE]
    /\ tasks = <<>>
    /\ submitted = NoData
    /\ view = NoData
    /\ app = NoData
    /\ receiptManager = NoData

\* last records the operation that ran last: its name, its result, the id
\* and the field names it was given, the snapshot document it imported, and
\* whether it was a call of initializeDefaultCategories that directly
\* followed another one.

SeedingOps == {"initializeDefaultCategories", "clearAllData"}

\* an import path was given a document but stopped before importData
Stopped(result) == result \in {"invalid", "cancelled", "typeError"}

\* one operation ran to completion: db is the database it leaves
Done(op, result, db, id, fields, data) ==
    /\ ops' = ops + 1
    /\ expenses' = db.expenses
    /\ expenseKeyGen' = db.expenseKeyGen
    /\ categories' = db.categories
    /\ categoryKeyGen' = db.categoryKeyGen
    /\ settings' = db.settings
    /\ last' = [op |-> op, result |-> result, id |-> id, fields |-> fields,
                data |-> IF Stopped(result) THEN NoData ELSE data,
                again |-> /\ op = "initializeDefaultCategories"
                          /\ last.op \in SeedingOps
                          /\ last.result = "ok"]
    /\ UNCHANGED <<now, tasks, submitted, view, app, receiptManager>>

Outcome(r) == IF r.ok THEN "ok" ELSE "error"

\* the clock behind new Date(): time passes between two operations
Tick ==
    /\ now <= ops
    /\ now' = now + 1
    /\ UNCHANGED <<expenses, expenseKeyGen, categories, categoryKeyGen,
                   settings, ops, last, tasks, submitted, view, app,
                   receiptManager>>

AddExpense ==
    /\ ops < MaxOps
    /\ \E expense \in FormExpenses :
            LET r == addExpense(DB, expense, now)
            IN  Done("addExpense", Outcome(r), r.db, 0, {}, NoData)

UpdateExpense ==
    /\ ops < MaxOps
    /\ \E id \in 1..expenseKeyGen, updates \in Patches :
            LET r == updateExpense(DB, id, updates, now)
            IN  Done("updateExpense", Outcome(r), r.db, id, DOMAIN updates, NoData)

\* ExpenseManager.deleteExpense: a confirmation prompt, then the delete
DeleteExpense ==
    /\ ops < MaxOps
    /\ \E id \in 1..expenseKeyGen, confirmed \in BOOLEAN :
            IF ~confirmed
            THEN Done("deleteExpense", "cancelled", DB, id, {}, NoData)
            ELSE LET r == deleteExpense(DB, id)
                 IN  Done("deleteExpense", Outcome(r), r.db, id, {}, NoData)

\* App.addCustomCategory with the (trimmed, non-empty) name the user typed
AddCategory ==
    /\ ops < MaxOps
    /\ \E name \in CategoryNames :
            LET r == addCategory(DB, [name |-> name])
            IN  Done("addCategory", Outcome(r), r.db, 0, {name}, NoData)

DeleteCategory ==
    /\ ops < MaxOps
    /\ \E id \in 1..categoryKeyGen :
            LET r == deleteCategory(DB, id)
            IN  Done("deleteCategory", Outcome(r), r.db, id, {}, NoData)

\* App.init on a page load: the store is open, the categories are seeded
\* or migrated
InitializeDefaultCategories ==
    /\ ops < MaxOps
    /\ LET r == initializeDefaultCategories(DB)
       IN  Done("initializeDefaultCategories", Outcome(r), r.db, 0, {}, NoData)

\* App.clearAllData: two confirmation prompts, then the database is
\* cleared and the defaults are seeded again
ClearAllData ==
    /\ ops < MaxOps
    /\ \E confirmed \in BOOLEAN, doubleCheck \in BOOLEAN :
            IF ~confirmed \/ ~doubleCheck
            THEN Done("clearAllData", "cancelled", DB, 0, {}, NoData)
            ELSE LET c == clearAllData(DB)
                     r == initializeDefaultCategories(c.db)
                 IN  Done("clearAllData", Outcome(r), r.db, 0, {}, NoData)

ImportFile ==
    /\ ops < MaxOps
    /\ \E data \in SnapshotInputs, confirmed \in BOOLEAN :
            LET r == backupImportData(DB, data, confirmed, now)
            IN  Done("importFile", r.result, r.db, 0, DOMAIN data, data)

RestoreFile ==
    /\ ops < MaxOps
    /\ \E data \in SnapshotInputs :
            LET r == restoreFile(DB, data, now)
            IN  Done("restoreFile", r.result, r.db, 0, DOMAIN data, data)

RestoreFromGoogleDrive ==
    /\ ops < MaxOps
    /\ \E data \in SnapshotInputs, confirmed \in BOOLEAN :
            LET r == restoreFromGoogleDrive(DB, data, confirmed, now)
            IN  Done("restoreFromGoogleDrive", r.result, r.db, 0, DOMAIN data, data)

\* importData(exportData()): the snapshot just exported is imported back
ImportExported ==
    /\ ops < MaxOps
    /\ LET data == exportData(DB, now)
           r == importData(DB, data, now)
       IN  Done("importExported", Outcome(r), r.db, 0, DOMAIN data, data)

Next ==
    \/ Tick
    \/ AddExpense
    \/ UpdateExpense
    \/ DeleteExpense
    \/ AddCategory
    \/ DeleteCategory
    \/ InitializeDefaultCategories
    \/ ClearAllData
    \/ ImportFile
    \/ RestoreFile
    \/ RestoreFromGoogleDrive
    \/ ImportExported

Spec == Init /\ [][Next]_vars

(* ------------------- interleaved invocations (async) ------------------- *)

\* Every Database method is an async function: it runs to its first await,
\* and each later part runs when the awaited request has completed, after
\* whatever other invocations were started in between.  One IndexedDB
\* transaction is one atomic step; transactions run in the order in which
\* they were created.  tasks is the list of the invocations made so far,
\* each with its position (pc) and its local variables.

MaxTasks == 3

EmptyDB == [expenses |-> {}, expenseKeyGen |-> 1,
            categories |-> {}, categoryKeyGen |-> 1, settings |-> {}]

AsyncExpense == createExpenseFromForm(100, 50, "Desk")

\* the database after one expense and one category were added
AsyncStart ==
    addCategory(addExpense(EmptyDB, AsyncExpense, 1).db, [name |-> "Desk"]).db

\* the patches of the update API: one field each, and one that carries an
\* id and timestamps of its own
AsyncPatches ==
    {[expenseAmount |-> 200], [percentUsedForWork |-> 100],
     [id |-> 7, createdAt |-> 0, updatedAt |-> 0]}

AsyncSnapshots ==
    {d \in SnapshotInputs :
        /\ Has(d, "categories") /\ Len(d.categories) = 1
        /\ Has(d, "expenses") /\ Len(d.expenses) = 1}

InitAsync ==
    /\ expenses = AsyncStart.expenses
    /\ expenseKeyGen = AsyncStart.expenseKeyGen
    /\ categories = AsyncStart.categories
    /\ categoryKeyGen = AsyncStart.categoryKeyGen
    /\ settings = AsyncStart.settings
    /\ now = 2
    /\ ops = 0
    /\ last = [op |-> "open", result |-> "ok", id |-> 0, fields |-> {},
               data |-> NoData, again |-> FALSE]
    /\ tasks = <<>>
    /\ submitted = NoData
    /\ view = NoData
    /\ app = NoData
    /\ receiptManager = NoData

\* one transaction committed: db is the database it leaves and ts the task
\* list; every export in flight notes the store state it has lived through
Commit(db, ts) ==
    /\ expenses' = db.expenses
    /\ expenseKeyGen' = db.expenseKeyGen
    /\ categories' = db.categories
    /\ categoryKeyGen' = db.categoryKeyGen
    /\ settings' = db.settings
    /\ tasks' = [i \in DOMAIN ts |->
                    IF ts[i].op = "exportData" /\ ts[i].pc # "done"
                    THEN [ts[i] EXCEPT
                            !.seen = @ \cup {<<db.expenses, db.categories>>}]
                    ELSE ts[i]]
    /\ UNCHANGED <<now, ops, last, submitted, view, app, receiptManager>>

CallAddExpense ==
    /\ Len(tasks) < MaxTasks
    /\ LET r == addExpense(DB, AsyncExpense, now)
       IN  Commit(r.db, Append(tasks,
                [op |-> "addExpense", pc |-> "done", ok |-> r.ok]))

CallAddCategory ==
    /\ Len(tasks) < MaxTasks
    /\ LET r == addCategory(DB, [name |-> "Chair"])
       IN  Commit(r.db, Append(tasks,
                [op |-> "addCategory", pc |-> "done", ok |-> r.ok]))

CallDeleteCategory ==
    /\ Len(tasks) < MaxTasks
    /\ \E id \in Keys(categories) :
            LET r == deleteCategory(DB, id)
            IN  Commit(r.db, Append(tasks,
                    [op |-> "deleteCategory", pc |-> "done", ok |-> r.ok]))

CallDeleteExpense ==
    /\ Len(tasks) < MaxTasks
    /\ \E id \in Keys(AsyncStart.expenses) :
            LET r == deleteExpense(DB, id)
            IN  Commit(r.db, Append(tasks,
                    [op |-> "deleteExpense", pc |-> "done", ok |-> r.ok,
                     id |-> id]))

\* updateExpense up to its await: the record is read in a readonly
\* transaction; a missing record makes the rest throw
CallUpdateExpense ==
    /\ Len(tasks) < MaxTasks
    /\ \E id \in Keys(AsyncStart.expenses), updates \in AsyncPatches :
            LET found == getExpense(DB, id)
            IN  Commit(DB, Append(tasks,
                    IF found = {}
                    THEN [op |-> "updateExpense", pc |-> "done", ok |-> FALSE,
                          id |-> id, updates |-> updates]
                    ELSE [op |-> "updateExpense", pc |-> "put", ok |-> TRUE,
                          id |-> id, updates |-> updates,
                          expense |-> CHOOSE r \in found : TRUE]))

\* updateExpense after its await: the merged record is put
UpdateExpensePut ==
    /\ tasks # <<>>
    /\ \E i \in DOMAIN tasks :
        /\ tasks[i].op = "updateExpense"
        /\ tasks[i].pc = "put"
        /\ LET r == updateExpensePut(DB, tasks[i].id, tasks[i].expense,
                                     tasks[i].updates, now)
           IN  Commit(r.db, [tasks EXCEPT ![i].pc = "done", ![i].ok = r.ok])

\* exportData up to its first await: getAllExpenses
CallExportData ==
    /\ Len(tasks) < MaxTasks
    /\ Commit(DB, Append(tasks,
            [op |-> "exportData", pc |-> "getAllCategories", ok |-> TRUE,
             expenses |-> getAllExpenses(DB), categories |-> <<>>,
             seen |-> {<<expenses, categories>>}]))

\* exportData after its first await: getAllCategories, and the result
ExportGetAllCategories ==
    /\ tasks # <<>>
    /\ \E i \in DOMAIN tasks :
        /\ tasks[i].op = "exportData"
        /\ tasks[i].pc = "getAllCategories"
        /\ Commit(DB, [tasks EXCEPT ![i].pc = "done",
                                    ![i].categories = getAllCategories(DB)])

\* what importData adds, in order: the categories, then the expenses
ImportTodo(data) ==
    (IF Has(data, "categories")
     THEN [i \in DOMAIN data.categories |->
              [store |-> "categories", value |-> data.categories[i]]]
     ELSE <<>>)
    \o (IF Has(data, "expenses")
        THEN [i \in DOMAIN data.expenses |->
                 [store |-> "expenses", value |-> data.expenses[i]]]
        ELSE <<>>)

\* importData up to the end of its first transaction: both stores cleared
CallImportData ==
    /\ Len(tasks) < MaxTasks
    /\ \E data \in AsyncSnapshots :
            Commit(importDataClear(DB), Append(tasks,
                [op |-> "importData",
                 pc |-> IF ImportTodo(data) = <<>> THEN "done" ELSE "add",
                 ok |-> TRUE, todo |-> ImportTodo(data)]))

\* one "await this.addCategory(category)" or "await this.addExpense(expense)"
\* of importData's loops; a rejected add ends the import
ImportDataAdd ==
    /\ tasks # <<>>
    /\ \E i \in DOMAIN tasks :
        /\ tasks[i].op = "importData"
        /\ tasks[i].pc = "add"
        /\ LET item == Head(tasks[i].todo)
               rest == Tail(tasks[i].todo)
               r == IF item.store = "categories"
                    THEN addCategory(DB, item.value)
                    ELSE addExpense(DB, item.value, now)
           IN  Commit(r.db, [tasks EXCEPT
                    ![i].pc = IF r.ok /\ rest # <<>> THEN "add" ELSE "done",
                    ![i].ok = r.ok,
                    ![i].todo = rest])

NextAsync ==
    \/ CallAddExpense
    \/ CallAddCategory
    \/ CallDeleteCategory
    \/ CallDeleteExpense
    \/ CallUpdateExpense
    \/ UpdateExpensePut
    \/ CallExportData
    \/ ExportGetAllCategories
    \/ CallImportData
    \/ ImportDataAdd

SpecAsync == InitAsync /\ [][NextAsync]_vars

(* --------------------------- the form submit --------------------------- *)

\* what the controls of the expense form may hold when it is submitted
FormDates == {<<>>, <<"2", "0", "2", "4", "-", "0", "1", "-", "1", "5">>}

FormMerchants == {<<>>, <<" ">>, <<" ", "A", "c", "m", "e", " ">>}

FormDetails == {<<>>, <<" ", "\t">>, <<"c", "h", "a", "i", "r">>}

FormCategories == {<<>>, <<"D", "e", "s", "k">>}

FormAmounts == {<<>>, <<"0">>, <<"-", "5">>, <<"1", "0", "0">>}

FormPercents == {<<"0">>, <<"5", "0">>, <<"1", "0", "0">>, <<"1", "5", "0">>,
                 <<"-", "1">>, <<"a">>}

FormExpenseIds == {<<>>, <<"1">>, <<"7">>}

FormReceipts == {<<>>, <<[name |-> "receipt.pdf"]>>}

\* the submitted forms: all controls present, or a form without the
\* merchant, amount and percentage controls
FormInputs ==
    {[datePaid |-> d, merchant |-> m, expenseDetails |-> x,
      expenseCategory |-> c, expenseAmount |-> a, percentUsedForWork |-> p,
      notes |-> <<>>, expenseId |-> i] :
        d \in FormDates, m \in FormMerchants, x \in FormDetails,
        c \in FormCategories, a \in FormAmounts, p \in FormPercents,
        i \in FormExpenseIds}
    \cup {[datePaid |-> d, expenseDetails |-> x, expenseCategory |-> c,
           expenseId |-> i] :
            d \in FormDates, x \in FormDetails, c \in FormCategories,
            i \in FormExpenseIds}

\* the expense form was filled in, on a store that holds expense 1
InitForm ==
    /\ expenses = AsyncStart.expenses
    /\ expenseKeyGen = AsyncStart.expenseKeyGen
    /\ categories = AsyncStart.categories
    /\ categoryKeyGen = AsyncStart.categoryKeyGen
    /\ settings = AsyncStart.settings
    /\ now = 2
    /\ ops = 0
    /\ last = [op |-> "open", result |-> "ok", id |-> 0, fields |-> {},
               data |-> NoData, again |-> FALSE]
    /\ tasks = <<>>
    /\ submitted \in {[pc |-> "form", formData |-> f, receipts |-> r] :
                        f \in FormInputs, r \in FormReceipts}
    /\ view = NoData
    /\ app = NoData
    /\ receiptManager = NoData

HandleExpenseSubmit ==
    /\ submitted.pc = "form"
    /\ LET r == handleExpenseSubmit(DB, submitted.formData,
                                    submitted.receipts, now)
       IN  /\ submitted' = [pc |-> "done", formData |-> submitted.formData,
                            expense |-> r.expense, errors |-> r.errors,
                            wrote |-> r.wrote, ok |-> r.ok]
           /\ expenses' = r.db.expenses
           /\ expenseKeyGen' = r.db.expenseKeyGen
           /\ categories' = r.db.categories
           /\ categoryKeyGen' = r.db.categoryKeyGen
           /\ settings' = r.db.settings
    /\ UNCHANGED <<now, ops, last, tasks, view, app, receiptManager>>

NextForm == HandleExpenseSubmit

SpecForm == InitForm /\ [][NextForm]_vars

(* ------------------------- the views of the ledger --------------------- *)

MaxViewExpenses == 2

Desk == <<"D", "e", "s", "k">>

Chair == <<"C", "h", "a", "i", "r">>

Acme == <<"A", "c", "m", "e">>

\* a stored expense as the form and addExpense leave it
ViewExpense(id, datePaid, merchant, category, amount) ==
    [id |-> id, datePaid |-> datePaid, merchant |-> merchant,
     expenseDetails |-> <<"l", "a", "m", "p">>, expenseCategory |-> category,
     expenseAmount |-> amount, percentUsedForWork |-> 50,
     deductible |-> calculateDeductible(amount, 50), notes |-> <<>>]

\* the expenses a store may hold: dates at the ends of years and quarters,
\* pairs that agree on the date, the merchant or the amount, and one in a
\* custom category that the user named "constructor"
ViewExpensePool ==
    {ViewExpense(1, <<2023, 12, 31>>, Acme, Desk, 100),
     ViewExpense(2, <<2024, 1, 1>>, <<"a", "c", "o", "r", "n">>, Desk, 200),
     ViewExpense(3, <<2024, 3, 31>>, <<"Z", "e", "d">>, Chair, 100),
     ViewExpense(4, <<2024, 4, 1>>, Acme, Desk, 100),
     ViewExpense(5, <<2024, 6, 30>>, <<"Z", "e", "d">>, Chair, 300),
     ViewExpense(6, <<2024, 6, 30>>, <<"B", "o", "b">>, Desk, 200),
     ViewExpense(7, <<2024, 12, 31>>, Acme, Chair, 300),
     ViewExpense(8, <<2025, 1, 1>>, <<"a", "c", "o", "r", "n">>, Desk, 100),
     ViewExpense(9, <<2024, 2, 15>>, Acme,
                 <<"c", "o", "n", "s", "t", "r", "u", "c", "t", "o", "r">>,
                 100)}

\* this.currentFilter as the filter controls may set it
CurrentFilters ==
    {[category |-> c, year |-> y, quarter |-> q, dateFrom |-> r[1],
      dateTo |-> r[2], searchTerm |-> t] :
        c \in {All, Desk},
        y \in {All, <<"2", "0", "2", "4">>},
        q \in {All, <<"1">>, <<"4">>},
        r \in {<<<<>>, <<>>>>,
               <<<<2024, 1, 1>>, <<2024, 6, 30>>>>,
               <<<<2024, 1, 1>>, <<>>>>,
               <<<<2024, 4, 1>>, <<2024, 4, 1>>>>},
        t \in {<<>>, <<"A", "C">>}}

DefaultFilter ==
    [category |-> All, year |-> All, quarter |-> All, dateFrom |-> <<>>,
     dateTo |-> <<>>, searchTerm |-> <<>>]

\* this.currentSort as setSort may set it
CurrentSorts ==
    {[field |-> f, order |-> o] :
        f \in {"datePaid", "merchant", "expenseAmount"},
        o \in {"asc", "desc"}}

DefaultSort == [field |-> "datePaid", order |-> "desc"]

\* the year and quarter the dashboard and the report are asked for
ReportYears == {2024}

ReportQuarters == {1, 4}

\* the instants at which the dashboard is drawn: two hours into the year
\* 2024 (UTC), and the middle of a 15 July
ClockInstants ==
    {newDate(<<2024, 1, 1>>) + 2 * 60 * 60,
     newDate(<<2024, 7, 15>>) + 12 * 60 * 60}

\* the window of groupByMonth: renderMonthlyTrend asks for 6 months
TrendMonths == {3, 6}

\* a store with some expenses, the filter or the sort set, a time zone
InitView ==
    /\ expenses \in {S \in SUBSET ViewExpensePool :
                        Cardinality(S) <= MaxViewExpenses}
    /\ expenseKeyGen = Cardinality(ViewExpensePool) + 1
    /\ categories = {}
    /\ categoryKeyGen = 1
    /\ settings = {}
    /\ now = 1
    /\ ops = 0
    /\ last = [op |-> "open", result |-> "ok", id |-> 0, fields |-> {},
               data |-> NoData, again |-> FALSE]
    /\ tasks = <<>>
    /\ submitted = NoData
    /\ view \in {[pc |-> "ready", currentFilter |-> f,
                  currentSort |-> DefaultSort, tz |-> tz] :
                    f \in CurrentFilters, tz \in TimeZones}
                \cup {[pc |-> "ready", currentFilter |-> DefaultFilter,
                       currentSort |-> so, tz |-> tz] :
                        so \in CurrentSorts, tz \in TimeZones}
    /\ app = NoData
    /\ receiptManager = NoData

\* ExpenseManager.renderExpenseTable: all expenses, filtered, then sorted
RenderExpenseTable ==
    /\ view.pc = "ready"
    /\ LET filtered == filterExpenses(getAllExpenses(DB), view.currentFilter,
                                      view.tz)
       IN  view' = Spread(view,
                [pc |-> "renderExpenseTable", filtered |-> filtered,
                 sorted |-> sortExpenses(filtered, view.currentSort),
                 filteredAfterSort |->
                    sortExpensesArgument(filtered, view.currentSort)])
    /\ UNCHANGED <<expenses, expenseKeyGen, categories, categoryKeyGen,
                   settings, now, ops, last, tasks, submitted, app,
                   receiptManager>>

\* DashboardManager.renderStatsCards: the expenses of the current quarter
RenderStatsCards ==
    /\ view.pc = "ready"
    /\ \E year \in ReportYears, quarter \in ReportQuarters :
            view' = Spread(view,
                [pc |-> "renderStatsCards", year |-> year,
                 quarter |-> quarter,
                 quarterExpenses |->
                    filterByQuarter(getAllExpenses(DB), year, quarter,
                                    view.tz)])
    /\ UNCHANGED <<expenses, expenseKeyGen, categories, categoryKeyGen,
                   settings, now, ops, last, tasks, submitted, app,
                   receiptManager>>

\* ReportManager.generateReport(year, quarter)
GenerateReport ==
    /\ view.pc = "ready"
    /\ \E year \in ReportYears, quarter \in ReportQuarters :
            view' = Spread(view,
                [pc |-> "generateReport", year |-> year, quarter |-> quarter,
                 stats |-> getQuarterlyStats(DB, year, quarter)])
    /\ UNCHANGED <<expenses, expenseKeyGen, categories, categoryKeyGen,
                   settings, now, ops, last, tasks, submitted, app,
                   receiptManager>>

\* DashboardManager.renderMonthlyTrend: all expenses, grouped by month
RenderMonthlyTrend ==
    /\ view.pc = "ready"
    /\ \E clock \in ClockInstants, months \in TrendMonths :
            view' = Spread(view,
                [pc |-> "renderMonthlyTrend", clock |-> clock,
                 months |-> months,
                 monthlyData |->
                    groupByMonth(getAllExpenses(DB), months, clock, view.tz)])
    /\ UNCHANGED <<expenses, expenseKeyGen, categories, categoryKeyGen,
                   settings, now, ops, last, tasks, submitted, app,
                   receiptManager>>

NextView ==
    \/ RenderExpenseTable
    \/ RenderStatsCards
    \/ GenerateReport
    \/ RenderMonthlyTrend

SpecView == InitView /\ [][NextView]_vars

(* ------------------ page loads and a failing storage engine ------------ *)

\* app is the App object of the page with what the page shows: the
\* position of App.init (pc), this.initialized, the loading overlay, the
\* "Initialization Error" box, whether db.init opened the store, the store
\* operations and view loads made since the page was loaded (calls), the
\* number of page loads, and the last store operation made from the loaded
\* app with the request of it that failed (0: none) and its promise.

MaxLoads == 2

NoRequest == [op |-> "none", fail |-> 0, promise |-> "resolved"]

\* the page was loaded: new App(), then app.init() up to "await db.init()"
newApp(loads) ==
    [pc |-> "db.init", initialized |-> FALSE, loading |-> TRUE,
     errorShown |-> FALSE, opened |-> "pending", calls |-> <<"db.init">>,
     loads |-> loads, request |-> NoRequest]

\* the catch block of App.init
initCatch(a) ==
    [a EXCEPT !.pc = "failed", !.loading = FALSE, !.errorShown = TRUE]

\* an init that goes on to the categories whatever db.init did
initAfterOpenNoCatch(a, opened) ==
    [a EXCEPT !.opened = IF opened THEN "yes" ELSE "no",
              !.pc = "initializeDefaultCategories"]

\* App.init when db.init() has settled: on to the categories when the
\* store was opened, into the catch block when the open request failed
initAfterOpen(a, opened) ==
    IF opened
    THEN [a EXCEPT !.opened = "yes", !.pc = "initializeDefaultCategories"]
    ELSE initCatch([a EXCEPT !.opened = "no"])

\* one awaited call of App.init's try block: the call is made; it throws
\* when the store was never opened (this.db is null) or when its request
\* fails, and the catch block runs; otherwise init goes on at pc next
initAwait(a, call, failed, next) ==
    LET called == [a EXCEPT !.calls = Append(@, call)]
    IN  IF a.opened # "yes" \/ failed
        THEN initCatch(called)
        ELSE [called EXCEPT !.pc = next]

Both == {"onsuccess", "onerror"}

\* The promises a Database method awaits inside its transaction, in order:
\* each is the list of the requests made in the promise's executor, a
\* request being the set of the handlers put on it.  clearAllData calls
\* clear() twice in each executor, with onsuccess on the first request and
\* onerror on the second; importData's two clears have no onerror.
Requests ==
    [addExpense |-> << <<Both>> >>,
     deleteExpense |-> << <<Both>> >>,
     getAllExpenses |-> << <<Both>> >>,
     importData |-> << <<{"onsuccess"}>>, <<{"onsuccess"}>> >>,
     clearAllData |-> << <<{"onsuccess"}, {"onerror"}>>,
                         <<{"onsuccess"}, {"onerror"}>>,
                         <<{"onsuccess"}, {"onerror"}>> >>]

RequestCount(op) ==
    LET steps == Requests[op]
        count[k \in 0..Len(steps)] ==
            IF k = 0 THEN 0 ELSE count[k - 1] + Len(steps[k])
    IN  count[Len(steps)]

\* What becomes of the awaited promises `steps` when the request number
\* fail (counted over the requests of steps; 0: none) fails.  A failed
\* request whose error event nobody handles aborts the transaction, and
\* every request made on it after the failed one gets an error event too
\* (aborted: the transaction was aborted in an earlier promise).  The first
\* event with a handler settles the promise: onsuccess resolves it and the
\* method goes on to its next promise, onerror rejects it and the method
\* throws; a promise none of whose events has a handler stays pending, and
\* the method with it.
RECURSIVE settle(_, _, _)
settle(steps, fail, aborted) ==
    IF steps = <<>> THEN "resolved"
    ELSE LET requests == Head(steps)
             failed(i) == aborted \/ (fail # 0 /\ i >= fail)
             handled == {i \in DOMAIN requests :
                            IF failed(i) THEN "onerror" \in requests[i]
                            ELSE "onsuccess" \in requests[i]}
             first == CHOOSE i \in handled : \A j \in handled : i <= j
         IN  IF handled = {} THEN "pending"
             ELSE IF failed(first) THEN "rejected"
             ELSE settle(Tail(steps),
                         IF fail > Len(requests)
                         THEN fail - Len(requests) ELSE 0,
                         aborted \/ (fail # 0 /\ fail <= Len(requests)))

\* the snapshot the loaded app imports
LoadSnapshot ==
    [categories |-> <<[id |-> 1, name |-> "Furniture"]>>,
     expenses |-> <<>>]

\* a store operation called from the loaded app, all of whose requests
\* succeed
runOperation(db, op, t) ==
    IF op = "addExpense" THEN addExpense(db, AsyncExpense, t)
    ELSE IF op = "deleteExpense" THEN deleteExpense(db, 1)
    ELSE IF op = "importData" THEN importData(db, LoadSnapshot, t)
    ELSE IF op = "clearAllData" THEN clearAllData(db)
    ELSE Resolve(db)

\* the stores a page may be loaded on: a fresh one, and one with an
\* expense and the legacy category Desk
InitLoad ==
    /\ \E db \in {EmptyDB, AsyncStart} :
        /\ expenses = db.expenses
        /\ expenseKeyGen = db.expenseKeyGen
        /\ categories = db.categories
        /\ categoryKeyGen = db.categoryKeyGen
        /\ settings = db.settings
    /\ now = 2
    /\ ops = 0
    /\ last = [op |-> "open", result |-> "ok", id |-> 0, fields |-> {},
               data |-> NoData, again |-> FALSE]
    /\ tasks = <<>>
    /\ submitted = NoData
    /\ view = NoData
    /\ app = newApp(1)
    /\ receiptManager = NoData

\* one step of the page: db is the store and a the app it leaves
AppStep(db, a) ==
    /\ app' = a
    /\ expenses' = db.expenses
    /\ expenseKeyGen' = db.expenseKeyGen
    /\ categories' = db.categories
    /\ categoryKeyGen' = db.categoryKeyGen
    /\ settings' = db.settings
    /\ UNCHANGED <<now, last, tasks, submitted, view, receiptManager>>

\* request.onsuccess of indexedDB.open: db.init resolves
OpenSuccess ==
    /\ app.pc = "db.init"
    /\ AppStep(DB, initAfterOpen(app, TRUE))
    /\ UNCHANGED ops

\* request.onerror of indexedDB.open: db.init rejects
OpenError ==
    /\ app.pc = "db.init"
    /\ AppStep(DB, initAfterOpen(app, FALSE))
    /\ UNCHANGED ops

\* "await db.initializeDefaultCategories()" of App.init
InitCategories ==
    /\ app.pc = "initializeDefaultCategories"
    /\ LET r == IF app.opened = "yes"
                THEN initializeDefaultCategories(DB) ELSE Reject(DB)
       IN  AppStep(r.db, initAwait(app, "initializeDefaultCategories",
                                   ~r.ok, "loadCategories"))
    /\ UNCHANGED ops

\* "await this.loadCategories()": db.getAllCategories, which may fail
LoadCategories ==
    /\ app.pc = "loadCategories"
    /\ \E failed \in BOOLEAN :
            AppStep(DB, initAwait(app, "getAllCategories", failed,
                                  "showView"))
    /\ UNCHANGED ops

\* "await this.showView('dashboard')", then this.initialized = true and
\* the loading overlay is hidden
ShowDashboard ==
    /\ app.pc = "showView"
    /\ \E failed \in BOOLEAN :
            LET a == initAwait(app, "refreshDashboard", failed, "ready")
            IN  AppStep(DB, IF a.pc = "ready"
                            THEN [a EXCEPT !.initialized = TRUE,
                                           !.loading = FALSE]
                            ELSE a)
    /\ UNCHANGED ops

\* location.reload(): the button of the error box, or the browser's
Reload ==
    /\ app.loads < MaxLoads
    /\ app.pc \in {"failed", "ready"}
    /\ AppStep(DB, newApp(app.loads + 1))
    /\ UNCHANGED ops

\* a handler of the loaded app calls a Database method, and one of the
\* method's requests may fail: the transaction of a failed request is
\* aborted and leaves the store as it was
StoreOperation ==
    /\ ops < MaxOps
    /\ app.pc = "ready"
    /\ ops' = ops + 1
    /\ \E op \in DOMAIN Requests :
        \E fail \in 0..RequestCount(op) :
            LET r == runOperation(DB, op, now)
                promise == IF fail = 0
                           THEN (IF r.ok THEN "resolved" ELSE "rejected")
                           ELSE settle(Requests[op], fail, FALSE)
            IN  AppStep(IF fail = 0 THEN r.db ELSE DB,
                        [app EXCEPT !.calls = Append(@, op),
                                    !.request = [op |-> op, fail |-> fail,
                                                 promise |-> promise]])

NextLoad ==
    \/ OpenSuccess
    \/ OpenError
    \/ InitCategories
    \/ LoadCategories
    \/ ShowDashboard
    \/ Reload
    \/ StoreOperation

SpecLoad == InitLoad /\ [][NextLoad]_vars

(* --------------------- receipts of the expense form -------------------- *)

\* receiptManager is the ReceiptManager object and the expense modal around
\* it: its two arrays (a receipt is the name of its file), the FileReaders
\* that have not called onload yet, whether the modal is shown, and the
\* hidden expense-id control of the form.  The other fields are history: the
\* number of the editing session (one opening of the modal, up to its cancel
\* or submit), the receipts that session started from (less the removed
\* ones), the files selected and read in it, and what the last submit saved.

MaxSessions == 2

ReceiptFiles == {"a.pdf", "b.png"}

\* ReceiptManager.getAllReceipts
getAllReceipts(rm) == rm.existingReceipts \o rm.selectedFiles

\* ReceiptManager.clearSelectedFiles
clearSelectedFiles(rm) ==
    [rm EXCEPT !.selectedFiles = <<>>, !.existingReceipts = <<>>]

\* array.splice(index, 1), index counted from 1
splice(array, index) ==
    SubSeq(array, 1, index - 1) \o SubSeq(array, index + 1, Len(array))

\* the text of an expense id below 10, as the expense-id control holds it
idText(id) == <<CHOOSE c \in DOMAIN DigitValue : DigitValue[c] = id>>

\* what the other controls of the form hold when it is submitted
receiptForm(expenseId) ==
    [datePaid |-> <<"2", "0", "2", "4", "-", "0", "1", "-", "1", "5">>,
     merchant |-> Acme, expenseDetails |-> <<"l", "a", "m", "p">>,
     expenseCategory |-> Desk, expenseAmount |-> <<"1", "0", "0">>,
     percentUsedForWork |-> <<"5", "0">>, notes |-> <<>>,
     expenseId |-> expenseId]

\* the store holds one expense, saved with one receipt; no modal is open
InitReceipts ==
    /\ expenses = {Spread(ViewExpense(1, <<2024, 1, 15>>, Acme, Desk, 100),
                          [receiptFiles |-> <<"old.pdf">>,
                           createdAt |-> 1, updatedAt |-> 1])}
    /\ expenseKeyGen = 2
    /\ categories = {}
    /\ categoryKeyGen = 1
    /\ settings = {}
    /\ now = 2
    /\ ops = 0
    /\ last = [op |-> "open", result |-> "ok", id |-> 0, fields |-> {},
               data |-> NoData, again |-> FALSE]
    /\ tasks = <<>>
    /\ submitted = NoData
    /\ view = NoData
    /\ app = NoData
    /\ receiptManager =
            [selectedFiles |-> <<>>, existingReceipts |-> <<>>,
             reading |-> {}, modal |-> FALSE, expenseId |-> <<>>,
             session |-> 0, stored |-> <<>>, selected |-> <<>>,
             picked |-> {}, saved |-> NoData]

\* a step of the form that writes nothing to the store
ReceiptStep(rm) ==
    /\ receiptManager' = rm
    /\ UNCHANGED <<expenses, expenseKeyGen, categories, categoryKeyGen,
                   settings, now, ops, last, tasks, submitted, view, app>>

\* App.openExpenseModal (the Add Expense button)
OpenExpenseModal ==
    /\ ~receiptManager.modal
    /\ receiptManager.session < MaxSessions
    /\ ReceiptStep([clearSelectedFiles(receiptManager) EXCEPT
            !.modal = TRUE, !.expenseId = <<>>,
            !.session = @ + 1, !.stored = <<>>, !.selected = <<>>])

\* ExpenseManager.editExpense(id) (the Edit button of a table row): the
\* form is filled from the stored expense and its receipts become
\* existingReceipts
EditExpense ==
    /\ ~receiptManager.modal
    /\ receiptManager.session < MaxSessions
    /\ \E expense \in expenses :
        ReceiptStep([receiptManager EXCEPT
            !.existingReceipts =
                IF Has(expense, "receiptFiles")
                THEN expense.receiptFiles ELSE @,
            !.modal = TRUE, !.expenseId = idText(expense.id),
            !.session = @ + 1,
            !.stored = IF Has(expense, "receiptFiles")
                       THEN expense.receiptFiles ELSE <<>>,
            !.selected = <<>>])

\* ReceiptManager.handleFiles with one valid file: readFile starts a
\* FileReader
HandleFiles ==
    /\ receiptManager.modal
    /\ \E file \in ReceiptFiles \ receiptManager.picked :
        ReceiptStep([receiptManager EXCEPT
            !.picked = @ \cup {file},
            !.reading = @ \cup {[file |-> file,
                                 session |-> receiptManager.session]}])

\* reader.onload of readFile: the file is pushed to selectedFiles
ReaderOnload ==
    /\ receiptManager.reading # {}
    /\ \E read \in receiptManager.reading :
        ReceiptStep([receiptManager EXCEPT
            !.reading = @ \ {read},
            !.selectedFiles = Append(@, read.file),
            !.selected = IF receiptManager.modal
                            /\ read.session = receiptManager.session
                         THEN Append(@, read.file) ELSE @])

\* ReceiptManager.removeFile (the remove button of a preview)
RemoveFile ==
    /\ receiptManager.modal
    /\ \E isExisting \in BOOLEAN :
        LET array == IF isExisting THEN receiptManager.existingReceipts
                     ELSE receiptManager.selectedFiles
        IN  \E index \in DOMAIN array :
                LET left == {i \in DOMAIN array : i # index}
                    keeps(history) ==
                        SelectSeq(history, LAMBDA f :
                            \/ f # array[index]
                            \/ \E i \in left : array[i] = f)
                IN  ReceiptStep(
                        IF isExisting
                        THEN [receiptManager EXCEPT
                                !.existingReceipts = splice(@, index),
                                !.stored = keeps(@)]
                        ELSE [receiptManager EXCEPT
                                !.selectedFiles = splice(@, index),
                                !.selected = keeps(@)])

\* App.closeAllModals (the cancel and close buttons of the modal)
CloseAllModals ==
    /\ receiptManager.modal
    /\ ReceiptStep([receiptManager EXCEPT !.modal = FALSE])

\* App.handleExpenseSubmit on the filled form: the draft gets
\* getAllReceipts(), is saved, and the modal is closed
SubmitExpenseForm ==
    /\ receiptManager.modal
    /\ LET r == handleExpenseSubmit(DB, receiptForm(receiptManager.expenseId),
                                    getAllReceipts(receiptManager), now)
           id == IF r.wrote = "addExpense" THEN expenseKeyGen
                 ELSE parseNumber(receiptManager.expenseId).value
       IN  /\ receiptManager' = [receiptManager EXCEPT
                !.modal = ~r.ok,
                !.saved = IF r.ok
                          THEN [id |-> id, session |-> receiptManager.session]
                          ELSE @]
           /\ expenses' = r.db.expenses
           /\ expenseKeyGen' = r.db.expenseKeyGen
           /\ categories' = r.db.categories
           /\ categoryKeyGen' = r.db.categoryKeyGen
           /\ settings' = r.db.settings
    /\ UNCHANGED <<now, ops, last, tasks, submitted, view, app>>

NextReceipts ==
    \/ OpenExpenseModal
    \/ EditExpense
    \/ HandleFiles
    \/ ReaderOnload
    \/ RemoveFile
    \/ CloseAllModals
    \/ SubmitExpenseForm

SpecReceipts == InitReceipts /\ [][NextReceipts]_vars

(* ------------------------------ properties ----------------------------- *)

Range(list) == {list[i] : i \in DOMAIN list}

Consistent(e) ==
    e.deductible = calculateDeductible(e.expenseAmount, e.percentUsedForWork)

ImportPaths == {"importFile", "restoreFile", "restoreFromGoogleDrive"}

ImportOps == ImportPaths \cup {"importExported"}

LegacyNames == {"Desk", "Chair"}

\* this step is a run of one of the operations in opNames (a Tick leaves
\* ops and last alone)
Ran(opNames) == ops' = ops + 1 /\ last'.op \in opNames

\* C1: after an update whose patch carries only expenseAmount or only
\* percentUsedForWork, the stored record's deductible is its merged
\* expenseAmount * percentUsedForWork / 100.
C1_PartialUpdateRecomputes ==
    (/\ last.op = "updateExpense"
     /\ last.result = "ok"
     /\ last.fields \in {{"expenseAmount"}, {"percentUsedForWork"}})
    => \A e \in expenses : e.id = last.id => Consistent(e)

\* C2: in every reachable state every persisted expense has
\* deductible = expenseAmount * percentUsedForWork / 100.
C2_DeductibleConsistentAtRest == \A e \in expenses : Consistent(e)

\* C3: category names are unique in every state, and addCategory with a name
\* that is already in the registry fails and leaves the registry as it was,
\* with exactly one category of that name.
C3_CategoryNamesUnique ==
    [][/\ \A c1, c2 \in categories' : c1.name = c2.name => c1 = c2
       /\ (Ran({"addCategory"}) /\ last'.fields \subseteq Names(categories))
          => /\ last'.result = "error"
             /\ categories' = categories
             /\ categoryKeyGen' = categoryKeyGen
             /\ Cardinality({c \in categories' : c.name \in last'.fields}) = 1
      ]_vars

C3_Witness ==
    /\ last.op = "addCategory"
    /\ last.result = "error"
    /\ last.fields \subseteq Names(categories)

\* C4: initializeDefaultCategories is idempotent: whatever the registry it
\* was called on, a second call on the registry it left leaves the same
\* category set, a call that directly follows another one changes nothing,
\* and a call on a non-empty registry adds no built-in category (at most
\* the migration's Furniture).
C4_InitializeDefaultsIdempotent ==
    [][Ran({"initializeDefaultCategories"})
       => /\ initializeDefaultCategories(DB').db.categories = categories'
          /\ last'.again => categories' = categories
          /\ categories # {}
             => Names(categories') \subseteq Names(categories) \cup {"Furniture"}
      ]_vars

C4_Witness ==
    /\ last.op = "initializeDefaultCategories"
    /\ last.again
    /\ Cardinality(categories) = Len(defaultCategories)

\* C5: after initializeDefaultCategories ran on a non-empty registry that
\* held Desk or Chair, the registry holds Furniture and neither Desk nor
\* Chair, also when Furniture was there before the call.
C5_MigrationRemovesLegacy ==
    [][(/\ Ran({"initializeDefaultCategories"})
        /\ Names(categories) \cap LegacyNames # {})
       => /\ "Furniture" \in Names(categories')
          /\ Names(categories') \cap LegacyNames = {}
      ]_vars

\* C6: deleteCategory and the Desk/Chair migration leave the expenses
\* collection as it was, the expenses naming the deleted category included.
C6_CategoryDeleteKeepsExpenses ==
    [][Ran({"deleteCategory", "initializeDefaultCategories"})
       => expenses' = expenses /\ expenseKeyGen' = expenseKeyGen]_vars

C6_Witness ==
    /\ last.op = "deleteCategory"
    /\ \E e \in expenses : e.expenseCategory \notin Names(categories)

\* C7: importData(exportData()) leaves the expenses and the categories
\* equal to what they were, ids and createdAt/updatedAt included.
C7_RoundTripIdentity ==
    [][Ran({"importExported"})
       => expenses' = expenses /\ categories' = categories]_vars

\* C8: on every import path a document without the expenses field or
\* without the categories field leaves the expenses and the categories
\* unchanged.
C8_InvalidSnapshotNoMutation ==
    [][(/\ Ran(ImportPaths)
        /\ ~({"expenses", "categories"} \subseteq last'.fields))
       => expenses' = expenses /\ categories' = categories]_vars

\* C9: an import in which the insert of a record fails leaves the store
\* with its complete content of before or with the complete content of the
\* snapshot.
C9_ImportAllOrNothing ==
    [][(Ran(ImportOps) /\ last'.result \in {"failed", "error"})
       => \/ expenses' = expenses /\ categories' = categories
          \/ /\ Has(last'.data, "expenses")
             /\ Has(last'.data, "categories")
             /\ {Unstamped(e) : e \in expenses'}
                    = {Unstamped(e) : e \in Range(last'.data.expenses)}
             /\ categories' = Range(last'.data.categories)
      ]_vars

C13_UpdateMissingFails ==
    [][(Ran({"updateExpense"}) /\ last'.id \notin Keys(expenses))
       => /\ last'.result = "error"
          /\ expenses' = expenses
          /\ expenseKeyGen' = expenseKeyGen
      ]_vars

C13_Witness ==
    /\ last.op = "updateExpense"
    /\ last.result = "error"
    /\ expenses # {}
    /\ last.id \notin Keys(expenses)

\* C14: a confirmed deleteExpense on an id that is not in the expenses
\* collection reports an error to its caller, not success.
C14_DeleteMissingReportsNotFound ==
    [][(/\ Ran({"deleteExpense"})
        /\ last'.result # "cancelled"
        /\ last'.id \notin Keys(expenses))
       => last'.result = "error"
      ]_vars

C11_ExportPointInTime ==
    \A i \in DOMAIN tasks :
        (tasks[i].op = "exportData" /\ tasks[i].pc = "done")
        => <<Range(tasks[i].expenses), Range(tasks[i].categories)>>
              \in tasks[i].seen

\* two resolved updates of one record, with patches on different fields, and
\* nothing else that writes that record
DisjointUpdates(i, j) ==
    /\ i # j
    /\ tasks[i].op = "updateExpense" /\ tasks[j].op = "updateExpense"
    /\ tasks[i].pc = "done" /\ tasks[j].pc = "done"
    /\ tasks[i].ok /\ tasks[j].ok
    /\ tasks[i].id = tasks[j].id
    /\ DOMAIN tasks[i].updates \cap DOMAIN tasks[j].updates = {}
    /\ \A k \in DOMAIN tasks :
          tasks[k].op \notin {"deleteExpense", "importData"}

NoLostUpdate ==
    \A i, j \in DOMAIN tasks :
        DisjointUpdates(i, j)
        => \A e \in expenses :
              e.id = tasks[i].id
              => \A f \in DOMAIN tasks[i].updates : e[f] = tasks[i].updates[f]

\* C12: updateExpense is an atomic read-modify-write: when two updates of
\* one record with patches on different fields have both resolved, the record
\* carries both patches, and the put of an update never brings back a record
\* that was deleted since the update read it.
C12_UpdateAtomic ==
    [][/\ NoLostUpdate'
       /\ \A i \in DOMAIN tasks :
            (/\ tasks[i].op = "updateExpense"
             /\ tasks[i].pc = "put"
             /\ tasks'[i].pc = "done")
            => (tasks[i].id \in Keys(expenses')
                    => tasks[i].id \in Keys(expenses))
      ]_vars

\* the fields of a draft that the rules of the ledger reject: date present,
\* merchant and details with a character that is not whitespace, category
\* present, amount above 0, percentage from 0 to 100
NonBlank(e, f) == Has(e, f) /\ \E i \in DOMAIN e[f] : e[f][i] \notin Whitespace

Violations(e) ==
    {f \in {"datePaid", "expenseCategory"} : ~Has(e, f) \/ Len(e[f]) = 0}
    \cup {f \in {"merchant", "expenseDetails"} : ~NonBlank(e, f)}
    \cup {f \in {"expenseAmount"} : ~Has(e, f) \/ ~(e[f] > 0)}
    \cup {f \in {"percentUsedForWork"} : ~Has(e, f) \/ e[f] \notin 0..100}

ViolationMessage ==
    [datePaid |-> "Date Paid is required",
     merchant |-> "Merchant is required",
     expenseDetails |-> "Expense Details is required",
     expenseCategory |-> "Expense Category is required",
     expenseAmount |-> "Expense Amount must be greater than 0",
     percentUsedForWork |-> "% Used for Work must be between 0 and 100"]

C17_InvalidDraftNoWrite ==
    [][(/\ submitted.pc = "form"
        /\ submitted'.pc = "done"
        /\ submitted'.errors # <<>>)
       => /\ submitted'.wrote = "none"
          /\ UNCHANGED <<expenses, expenseKeyGen, categories, categoryKeyGen,
                         settings>>
      ]_vars

\* an invalid edit of the stored expense 1 was submitted
C17_Witness ==
    /\ submitted # NoData
    /\ submitted.pc = "done"
    /\ submitted.errors # <<>>
    /\ submitted.formData["expenseId"] = <<"1">>
    /\ expenses # {}

\* the quarter of a month, 1 to 12: Q1 = Jan-Mar, ..., Q4 = Oct-Dec
QuarterOfMonth(m) == ((m - 1) \div 3) + 1

\* the date predicate of a filter on the calendar date an expense was paid
DateSelected(e, f) ==
    IF f.dateFrom # <<>> /\ f.dateTo # <<>>
    THEN dateStringLeq(f.dateFrom, e.datePaid)
         /\ dateStringLeq(e.datePaid, f.dateTo)
    ELSE IF f.year # All
    THEN /\ e.datePaid[1] = parseNumber(f.year).value
         /\ f.quarter # All
            => QuarterOfMonth(e.datePaid[2]) = parseNumber(f.quarter).value
    ELSE TRUE

CategorySelected(e, f) == f.category = All \/ e.expenseCategory = f.category

SearchSelected(e, f) ==
    includes(toLowerCase(e.merchant \o <<" ">> \o e.expenseDetails \o <<" ">>
                         \o e.expenseCategory \o <<" ">> \o e.notes),
             toLowerCase(f.searchTerm))

\* C18: filterExpenses returns exactly the expenses that pass the category,
\* the date and the search predicate, where the date predicate is the
\* inclusive range [dateFrom, dateTo] when both are set (year and quarter
\* ignored), otherwise the year, and the quarter within it, when set.
C18_FilterIsConjunction ==
    (view # NoData /\ view.pc = "renderExpenseTable")
    => view.filtered
        = SelectSeq(getAllExpenses(DB), LAMBDA e :
            /\ CategorySelected(e, view.currentFilter)
            /\ DateSelected(e, view.currentFilter)
            /\ SearchSelected(e, view.currentFilter))

\* the filters that select by this year and quarter only
QuarterFilters(year, quarter) ==
    {f \in CurrentFilters :
        /\ f.category = All /\ f.searchTerm = <<>>
        /\ f.dateFrom = <<>> /\ f.dateTo = <<>>
        /\ f.year # All /\ parseNumber(f.year).value = year
        /\ f.quarter # All /\ parseNumber(f.quarter).value = quarter}

\* C19: for a year and a quarter, the year+quarter filter of filterExpenses,
\* the dashboard's filterByQuarter and the date range of getQuarterlyStats
\* select the same expenses; with year 'all' the quarter of the filter has
\* no effect.
C19_QuarterMappingAgrees ==
    /\ (view # NoData /\ view.pc = "generateReport")
       => /\ Range(view.stats.expenses)
                = Range(filterByQuarter(getAllExpenses(DB), view.year,
                                        view.quarter, view.tz))
          /\ \A f \in QuarterFilters(view.year, view.quarter) :
                Range(view.stats.expenses)
                    = Range(filterExpenses(getAllExpenses(DB), f, view.tz))
    /\ (view # NoData /\ view.pc = "renderExpenseTable"
            /\ view.currentFilter.year = All)
       => view.filtered
            = filterExpenses(getAllExpenses(DB),
                             [view.currentFilter EXCEPT !.quarter = All],
                             view.tz)

\* a comes before b in the order of the field: dates by calendar order,
\* numbers by size, texts by code units
FieldBefore(a, b, field) ==
    IF field = "datePaid"
    THEN a[field] # b[field] /\ dateStringLeq(a[field], b[field])
    ELSE IF field \in NumberFields THEN a[field] < b[field]
    ELSE textLess(a[field], b[field])

PositionIn(list, x) == CHOOSE k \in DOMAIN list : list[k] = x

\* C20: sortExpenses returns a permutation of its input, ordered by the
\* configured field in the configured direction, in which the records that
\* are equal on that field are in the order they had in the input.
C20_SortStable ==
    (view # NoData /\ view.pc = "renderExpenseTable")
    => LET in == view.filtered
           out == view.sorted
           field == view.currentSort.field
       IN  /\ Len(out) = Len(in)
           /\ Range(out) = Range(in)
           /\ \A i, j \in DOMAIN out :
                i < j
                => /\ IF view.currentSort.order = "asc"
                      THEN ~FieldBefore(out[j], out[i], field)
                      ELSE ~FieldBefore(out[i], out[j], field)
                   /\ (/\ ~FieldBefore(out[i], out[j], field)
                       /\ ~FieldBefore(out[j], out[i], field))
                      => PositionIn(in, out[i]) < PositionIn(in, out[j])

\* a descending sort that had to swap nothing: two expenses of one date
C20_Witness ==
    /\ view # NoData
    /\ view.pc = "renderExpenseTable"
    /\ view.currentSort = [field |-> "datePaid", order |-> "desc"]
    /\ Len(view.sorted) = 2
    /\ view.sorted[1].datePaid = view.sorted[2].datePaid
    /\ view.sorted[1].id < view.sorted[2].id

\* C21: the query operations leave their input as it was: the array handed
\* to sortExpenses holds, after the call, the same expenses in the same
\* order as before it.
C21_QueriesLeaveInput ==
    (view # NoData /\ view.pc = "renderExpenseTable")
    => view.filteredAfterSort = view.filtered

RECURSIVE SumOfEntries(_, _)
SumOfEntries(byCategory, field) ==
    IF DOMAIN byCategory = {} THEN 0
    ELSE LET name == CHOOSE n \in DOMAIN byCategory : TRUE
         IN  byCategory[name][field]
             + SumOfEntries([n \in DOMAIN byCategory \ {name} |->
                                byCategory[n]], field)

\* C22: the byCategory grouping of a quarterly report has an entry for
\* exactly the category names of the report's expenses, none of them with
\* count 0, and the entries' count, totalAmount and totalDeductible add up
\* to the report's expenseCount, totalExpenses and totalDeductible.
C22_ByCategoryReconciles ==
    (view # NoData /\ view.pc = "generateReport")
    => LET stats == view.stats
       IN  /\ DOMAIN stats.byCategory
                = {e.expenseCategory : e \in Range(stats.expenses)}
           /\ \A n \in DOMAIN stats.byCategory :
                stats.byCategory[n].count > 0
           /\ SumOfEntries(stats.byCategory, "count") = stats.expenseCount
           /\ SumOfEntries(stats.byCategory, "totalAmount")
                = stats.totalExpenses
           /\ SumOfEntries(stats.byCategory, "totalDeductible")
                = stats.totalDeductible

\* the k-th month, oldest first, of the n months that end at the month of
\* the calendar date today: <<year, month>>, months counted from 1
WindowMonth(today, n, k) ==
    LET index == today[1] * 12 + (today[2] - 1) - (n - k)
    IN  <<index \div 12, (index % 12) + 1>>

\* C23: groupByMonth(expenses, n) has n entries, the k-th one for the k-th
\* of the n consecutive months that end at the current month, with the
\* number and the deductible sum of the expenses whose datePaid lies in that
\* month, 0 and 0 when there is none.
C23_GroupByMonthWindow ==
    (view # NoData /\ view.pc = "renderMonthlyTrend")
    => LET today == localDate(view.clock, view.tz)
           data == view.monthlyData
       IN  /\ Len(data) = view.months
           /\ \A k \in 1..view.months :
                LET month == WindowMonth(today, view.months, k)
                    dated == SelectSeq(getAllExpenses(DB), LAMBDA e :
                                <<e.datePaid[1], e.datePaid[2]>> = month)
                IN  /\ data[k].label = <<month[2] - 1, month[1] % 100>>
                    /\ data[k].count = Len(dated)
                    /\ data[k].deductible = sumOf(dated, "deductible")

\* C24: when the store could not be opened, the page shows the
\* initialization error, the app is not marked initialized, and nothing
\* but the failed db.init was called on this page: no store operation and
\* no view load.
C24_FailedOpenIsFatal ==
    (app # NoData /\ app.opened = "no")
    => /\ app.pc = "failed"
       /\ app.errorShown
       /\ ~app.loading
       /\ ~app.initialized
       /\ app.calls = <<"db.init">>

\* the open failed on the reload of a page that had been initialized
C24_Witness ==
    /\ app # NoData
    /\ app.opened = "no"
    /\ app.loads = 2
    /\ categories # {}
    /\ app.errorShown

\* C25: a store operation one of whose requests failed has its promise
\* rejected: it is not left pending and not resolved.
C25_FailedRequestRejects ==
    (app # NoData /\ app.request.fail # 0)
    => app.request.promise = "rejected"

\* C26: an import runs the migrations of a store open: the categories an
\* import of a snapshot document leaves are already migrated (the Desk/Chair
\* migration finds nothing to do on them), so a snapshot with the legacy
\* Desk and without Furniture ends with Furniture and without Desk.
C26_ImportMigrates ==
    [][(Ran(ImportPaths) /\ last'.result = "ok" /\ categories' # {})
       => initializeDefaultCategories(DB').db.categories = categories'
      ]_vars

\* C27: the store controls id, createdAt and updatedAt: the record that the
\* put of an updateExpense(id, patch) writes has the id it was called with,
\* the createdAt of the record the update read, and the time of the put as
\* updatedAt, whatever the patch carries.
C27_StoreControlsStamps ==
    [][\A i \in DOMAIN tasks :
        (/\ tasks[i].op = "updateExpense"
         /\ tasks[i].pc = "put"
         /\ tasks'[i].pc = "done")
        => \E e \in expenses' :
            /\ e.id = tasks[i].id
            /\ Keys(expenses') = Keys(expenses) \cup {e.id}
            /\ e.createdAt = tasks[i].expense.createdAt
            /\ e.updatedAt = now
      ]_vars

\* C28: Database.clearAllData empties the expenses, the categories and the
\* settings, and it runs only in App.clearAllData after the user accepted
\* both prompts: a declined prompt leaves the store as it was, an accepted
\* pair leaves the cleared store with the built-in categories seeded again,
\* and no other step empties the settings.
C28_ClearAllOnlyOnConfirm ==
    [][/\ Ran({"clearAllData"})
          => IF last'.result = "cancelled"
             THEN DB' = DB
             ELSE LET cleared == clearAllData(DB).db
                  IN  /\ cleared.expenses = {}
                      /\ cleared.categories = {}
                      /\ cleared.settings = {}
                      /\ DB' = initializeDefaultCategories(cleared).db
                      /\ expenses' = {}
                      /\ settings' = {}
       /\ (settings # {} /\ settings' = {})
          => (Ran({"clearAllData"}) /\ last'.result # "cancelled")
      ]_vars

\* a store that held expenses and a setting was cleared
C28_Witness ==
    /\ last.op = "clearAllData"
    /\ last.result = "ok"
    /\ expenseKeyGen > 1
    /\ expenses = {}
    /\ settings = {}
    /\ Names(categories) = {c.name : c \in Range(defaultCategories)}

\* C29: the receiptFiles that a submit saves with an expense are the
\* receipts the editing session started from (those stored with that
\* expense; none for a new one), less the ones removed in the session,
\* followed by the files selected in that session.
C29_ReceiptsStayWithTheirExpense ==
    [][(/\ receiptManager.modal
        /\ ~receiptManager'.modal
        /\ receiptManager'.saved # receiptManager.saved)
       => \E e \in expenses' :
            /\ e.id = receiptManager'.saved.id
            /\ e.receiptFiles
                = receiptManager.stored \o receiptManager.selected
      ]_vars

\* C30: the expense that a form submit writes, by addExpense or by
\* updateExpense, is stored with the amount and the percentage of the form
\* and with deductible = expenseAmount * percentUsedForWork / 100.
C30_FormWritesDeductible ==
    [][(/\ submitted.pc = "form"
        /\ submitted'.pc = "done"
        /\ submitted'.wrote # "none"
        /\ submitted'.ok)
       => \E e \in expenses' :
            /\ e.id = IF submitted'.wrote = "addExpense" THEN expenseKeyGen
                      ELSE parseNumber(submitted.formData["expenseId"]).value
            /\ e.expenseAmount
                = parseFloatOrZero(submitted.formData, "expenseAmount")
            /\ e.percentUsedForWork
                = parseFloatOrZero(submitted.formData, "percentUsedForWork")
            /\ e.deductible * 100 = e.expenseAmount * e.percentUsedForWork
      ]_vars

\* the stored expense 1 (deductible 50) was edited to 100 percent
C30_Witness ==
    /\ submitted # NoData
    /\ submitted.pc = "done"
    /\ submitted.wrote = "updateExpense"
    /\ submitted.ok
    /\ \E e \in expenses :
        /\ e.id = 1
        /\ e.percentUsedForWork = 100
        /\ e.deductible = 100

====
